---- MODULE Spec2Model ----
(***************************************************************************)
(* Supabase Lab: the config loader (session.get_config), the REPL loop     *)
(* (lab.prompt / lab.parse), the backend adapter (backend.sign_in,         *)
(* sign_out, subscribe_channel, unsubscribe_channel,                       *)
(* send_to_broadcast_channel) and the dev module (dev.dev, dev.edge,       *)
(* dev.beep, dev.schan, dev.debug).                                        *)
(*                                                                         *)
(* A Python str is a sequence of one-character strings.  A config value is *)
(* a record [t, s, b]: t = "str" with text s, t = "bool" with truth b, or  *)
(* t = "dict" for the beep registry that dev.get_beep_id stores under the  *)
(* key 'beeping' (its contents are the variable beeping).                  *)
(***************************************************************************)
EXTENDS Integers, Sequences, FiniteSets, TLC

VARIABLES
    cfg_phase,      \* which get_config call of lab.py is running
    loaded,         \* the config lines parsed so far, in order
    config,         \* core.Session.config
    config_order,   \* the keys of core.Session.config in insertion order
    running,        \* core.Main.running
    authenticated,  \* core.Session.authenticated
    jwt_token,      \* core.Session.jwt_token ("None" or a token)
    supabase,       \* core.Session.supabase is set (the client is connected)
    subscriptions,  \* core.Session.subscriptions: channel name -> subscription
    pc,             \* position of lab.prompt's loop
    line_in,        \* the last input line read by the prompt
    out,            \* the lines printed while handling the last input line
    raised,         \* the exception that left lab.prompt, or "None"
    last,           \* the handler the last input line was dispatched to
    edge_call,      \* the text dev.edge last handed to ast.literal_eval
    beeping,        \* core.Session.config['beeping']: beep id -> status
    beeps,          \* the dev.beep tasks and their run_beep tasks
    chans,          \* the dev.sub / dev.unsub / dev.lschan tasks
    sdk_channels    \* the subscriptions the realtime SDK has handed out

vars == <<cfg_phase, loaded, config, config_order, running, authenticated, jwt_token, supabase,
          subscriptions, pc, line_in, out, raised, last, edge_call, beeping, beeps,
          chans, sdk_channels>>

cfg_vars == <<cfg_phase, loaded>>
config_vars == <<config, config_order>>
session_vars == <<running, authenticated, jwt_token, supabase>>
repl_vars == <<pc, line_in, out, raised, last, edge_call>>
beep_vars == <<beeping, beeps>>
chan_vars == <<subscriptions, chans, sdk_channels>>

(***************************************************************************)
(* Strings                                                                 *)
(***************************************************************************)

\* session.SPACE_DELIM, dev.SPACE_DELIM: the NUL character
NUL == "NUL"

\* what \s matches and str.strip() removes
WS == {" ", "\t"}

UpperCase == {"A","B","C","D","E","F","G","H","I","J","K","L","M",
              "N","O","P","Q","R","S","T","U","V","W","X","Y","Z"}

LowerCase == {"a","b","c","d","e","f","g","h","i","j","k","l","m",
              "n","o","p","q","r","s","t","u","v","w","x","y","z"}

Digits == {"0","1","2","3","4","5","6","7","8","9"}

\* what \w matches
WordChars == UpperCase \cup LowerCase \cup Digits \cup {"_"}

LowerOf == [c \in UpperCase |->
    CASE c = "A" -> "a" [] c = "B" -> "b" [] c = "C" -> "c" [] c = "D" -> "d"
      [] c = "E" -> "e" [] c = "F" -> "f" [] c = "G" -> "g" [] c = "H" -> "h"
      [] c = "I" -> "i" [] c = "J" -> "j" [] c = "K" -> "k" [] c = "L" -> "l"
      [] c = "M" -> "m" [] c = "N" -> "n" [] c = "O" -> "o" [] c = "P" -> "p"
      [] c = "Q" -> "q" [] c = "R" -> "r" [] c = "S" -> "s" [] c = "T" -> "t"
      [] c = "U" -> "u" [] c = "V" -> "v" [] c = "W" -> "w" [] c = "X" -> "x"
      [] c = "Y" -> "y" [] c = "Z" -> "z"]

\* str.lower()
lower(s) == [i \in 1..Len(s) |-> IF s[i] \in UpperCase THEN LowerOf[s[i]] ELSE s[i]]

\* str.replace(old, new) for one-character old and new
replace(s, old, new) == [i \in 1..Len(s) |-> IF s[i] = old THEN new ELSE s[i]]

\* the first index >= i of s that holds no whitespace (Len(s) + 1 if none)
RECURSIVE SkipWs(_, _)
SkipWs(s, i) == IF i <= Len(s) /\ s[i] \in WS THEN SkipWs(s, i + 1) ELSE i

\* the last index <= i of s that holds no whitespace (0 if none)
RECURSIVE SkipWsBack(_, _)
SkipWsBack(s, i) == IF i >= 1 /\ s[i] \in WS THEN SkipWsBack(s, i - 1) ELSE i

\* str.strip()
strip(s) == SubSeq(s, SkipWs(s, 1), SkipWsBack(s, Len(s)))

\* the length of the longest run of characters of s from index i that are not in stop
RECURSIVE RunLen(_, _, _)
RunLen(s, i, stop) ==
    IF i <= Len(s) /\ s[i] \notin stop THEN 1 + RunLen(s, i + 1, stop) ELSE 0

\* the first index >= i of s that holds c (0 if none)
RECURSIVE IndexOf(_, _, _)
IndexOf(s, i, c) ==
    IF i > Len(s) THEN 0 ELSE IF s[i] = c THEN i ELSE IndexOf(s, i + 1, c)

\* '*' * n
RECURSIVE Stars(_)
Stars(n) == IF n <= 0 THEN <<>> ELSE <<"*">> \o Stars(n - 1)

\* the words of the program: config keys, command words of lab.parse, experiment words
\* of dev.dev, filter words of dev.debug, and the default url
S == [
    password |-> <<"p","a","s","s","w","o","r","d">>,
    email |-> <<"e","m","a","i","l">>,
    api_key |-> <<"a","p","i","_","k","e","y">>,
    url |-> <<"u","r","l">>,
    beeping |-> <<"b","e","e","p","i","n","g">>,
    True |-> <<"T","r","u","e">>,
    False |-> <<"F","a","l","s","e">>,
    login |-> <<"l","o","g","i","n">>,
    logout |-> <<"l","o","g","o","u","t">>,
    exit |-> <<"e","x","i","t">>,
    print |-> <<"p","r","i","n","t">>,
    debug |-> <<"d","e","b","u","g">>,
    dev |-> <<"d","e","v">>,
    explore |-> <<"e","x","p","l","o","r","e">>,
    beep |-> <<"b","e","e","p">>,
    edge |-> <<"e","d","g","e">>,
    subscribe |-> <<"s","u","b","s","c","r","i","b","e">>,
    sub |-> <<"s","u","b">>,
    unsubscribe |-> <<"u","n","s","u","b","s","c","r","i","b","e">>,
    unsub |-> <<"u","n","s","u","b">>,
    listchannels |-> <<"l","i","s","t","c","h","a","n","n","e","l","s">>,
    lschan |-> <<"l","s","c","h","a","n">>,
    listenchan |-> <<"l","i","s","t","e","n","c","h","a","n">>,
    lchan |-> <<"l","c","h","a","n">>,
    sendchan |-> <<"s","e","n","d","c","h","a","n">>,
    schan |-> <<"s","c","h","a","n">>,
    listendb |-> <<"l","i","s","t","e","n","d","b">>,
    ldb |-> <<"l","d","b">>,
    ping |-> <<"p","i","n","g">>,
    stop |-> <<"s","t","o","p">>,
    config |-> <<"c","o","n","f","i","g">>,
    jwt_token |-> <<"j","w","t","_","t","o","k","e","n">>,
    jwt |-> <<"j","w","t">>,
    running |-> <<"r","u","n","n","i","n","g">>,
    authenticated |-> <<"a","u","t","h","e","n","t","i","c","a","t","e","d">>,
    tasks |-> <<"t","a","s","k","s">>,
    test |-> <<"t","e","s","t">>,
    threads |-> <<"t","h","r","e","a","d","s">>,
    default_url |-> <<"h","t","t","p",":","/","/","1","2","7",".","0",".","0",".","1",":","5","4","3","2","1">> ]

(***************************************************************************)
(* Config values                                                           *)
(***************************************************************************)

StrVal(s) == [t |-> "str", s |-> s, b |-> FALSE]
BoolVal(b) == [t |-> "bool", s |-> <<>>, b |-> b]
DictVal == [t |-> "dict", s |-> <<>>, b |-> FALSE]

\* no match of a regular expression
NoMatch == [ok |-> FALSE, key |-> <<>>, value |-> <<>>]

(***************************************************************************)
(* session.get_config                                                      *)
(***************************************************************************)

\* re.match(r'^(\S*)\s*=\s*(.*)$', line): \S* is greedy, so the key is the
\* longest run of non-whitespace from the start that is followed by \s*=
RECURSIVE match_key_value_from(_, _)
match_key_value_from(line, k) ==
    IF k < 0 THEN NoMatch
    ELSE LET e == SkipWs(line, k + 1) IN
         IF e <= Len(line) /\ line[e] = "="
         THEN [ok |-> TRUE, key |-> SubSeq(line, 1, k),
               value |-> SubSeq(line, SkipWs(line, e + 1), Len(line))]
         ELSE match_key_value_from(line, k - 1)

match_key_value(line) == match_key_value_from(line, RunLen(line, 1, WS))

\* re.match(r'^(\S*)\s*=()$', line)
RECURSIVE match_key_empty_from(_, _)
match_key_empty_from(line, k) ==
    IF k < 0 THEN NoMatch
    ELSE LET e == SkipWs(line, k + 1) IN
         IF e = Len(line) /\ line[e] = "="
         THEN [ok |-> TRUE, key |-> SubSeq(line, 1, k), value |-> <<>>]
         ELSE match_key_empty_from(line, k - 1)

match_key_empty(line) == match_key_empty_from(line, RunLen(line, 1, WS))

\* re.match(r'^(\S*)\s*=(\{.*\})$', line)
RECURSIVE match_key_braces_from(_, _)
match_key_braces_from(line, k) ==
    IF k < 0 THEN NoMatch
    ELSE LET e == SkipWs(line, k + 1) IN
         IF /\ e + 2 <= Len(line)
            /\ line[e] = "="
            /\ line[e + 1] = "{"
            /\ line[Len(line)] = "}"
         THEN [ok |-> TRUE, key |-> SubSeq(line, 1, k),
               value |-> SubSeq(line, e + 1, Len(line))]
         ELSE match_key_braces_from(line, k - 1)

match_key_braces(line) == match_key_braces_from(line, RunLen(line, 1, WS))

\* the three re.match attempts of get_config, in order
match_line(line) ==
    IF match_key_value(line).ok THEN match_key_value(line)
    ELSE IF match_key_empty(line).ok THEN match_key_empty(line)
    ELSE match_key_braces(line)

\* re.sub(r'\{([^}]*)\}', lambda m: '{' + m.group(1).replace(' ', SPACE_DELIM) + '}', value)
RECURSIVE escape_braces_from(_, _)
escape_braces_from(v, i) ==
    IF i > Len(v) THEN <<>>
    ELSE LET j == IndexOf(v, i + 1, "}") IN
         IF v[i] = "{" /\ j > 0
         THEN <<"{">> \o replace(SubSeq(v, i + 1, j - 1), " ", NUL) \o <<"}">>
              \o escape_braces_from(v, j + 1)
         ELSE <<v[i]>> \o escape_braces_from(v, i + 1)

escape_braces(v) == escape_braces_from(v, 1)

TrueWords == {<<"t">>, <<"t","r","u","e">>, <<"y">>, <<"1">>}
FalseWords == {<<"f">>, <<"f","a","l","s","e">>, <<"n">>, <<"0">>}

\* a bug get_config could have: the boolean words compared without lower()
coerce_case_sensitive(value) ==
    IF value \in TrueWords THEN BoolVal(TRUE)
    ELSE IF value \in FalseWords THEN BoolVal(FALSE)
    ELSE StrVal(value)

\* value.lower() in ['t', 'true', 'y', '1'] / ['f', 'false', 'n', '0']
coerce(value) ==
    IF lower(value) \in TrueWords THEN BoolVal(TRUE)
    ELSE IF lower(value) \in FalseWords THEN BoolVal(FALSE)
    ELSE StrVal(value)

\* a bug get_config could have: a key that is already set keeps its value
assign_keep_first(cfg, key, value) ==
    [k \in DOMAIN cfg \cup {key} |-> IF k \in DOMAIN cfg THEN cfg[k] ELSE value]

\* core.Session.config[key] = value
assign(cfg, key, value) ==
    [k \in DOMAIN cfg \cup {key} |-> IF k = key THEN value ELSE cfg[k]]

\* the insertion order of a dict after d[key] = value
ordered(order, key) ==
    IF \E i \in 1..Len(order) : order[i] = key THEN order ELSE Append(order, key)

\* line.startswith('#') or line == '': the line is skipped
is_skipped(line) == strip(line) = <<>> \/ strip(line)[1] = "#"

\* the body of get_config's loop for one line of a config file
get_config_line(cfg, raw_line) ==
    LET line == strip(raw_line)
        m == match_line(line)
    IN  IF is_skipped(raw_line) THEN cfg
        ELSE IF m.ok THEN assign(cfg, m.key, coerce(escape_braces(m.value)))
        ELSE cfg

\* the insertion order of the config dict after the body of get_config's loop
get_config_line_order(order, raw_line) ==
    LET m == match_line(strip(raw_line)) IN
    IF ~is_skipped(raw_line) /\ m.ok THEN ordered(order, m.key) ELSE order

\* get_config over the lines of its files, in order
RECURSIVE get_config(_, _)
get_config(cfg, lines) ==
    IF lines = <<>> THEN cfg
    ELSE get_config(get_config_line(cfg, Head(lines)), Tail(lines))

RECURSIVE get_config_order(_, _)
get_config_order(order, lines) ==
    IF lines = <<>> THEN order
    ELSE get_config_order(get_config_line_order(order, Head(lines)), Tail(lines))

(***************************************************************************)
(* lab.prompt: the substitution of .configKey references                   *)
(***************************************************************************)

\* str(value) as an f-string or print renders a config value
text_of(v) ==
    IF v.t = "bool" THEN (IF v.b THEN S.True ELSE S.False)
    ELSE IF v.t = "dict" THEN <<"{...}">>
    ELSE v.s

\* what parse_dot_references returns for the reference '.' + dot_ref: the text that
\* replaces it, or a value that is no str, which makes re.sub raise TypeError
parse_dot_references(cfg, dot_ref) ==
    LET ref_value == IF dot_ref \in DOMAIN cfg THEN cfg[dot_ref]
                     ELSE StrVal(<<".">> \o dot_ref)
        as_str == IF ref_value.t = "bool" THEN StrVal(text_of(ref_value)) ELSE ref_value
    IN  IF dot_ref = S.password
        THEN (IF as_str.t = "dict" THEN StrVal(Stars(0)) ELSE StrVal(Stars(Len(as_str.s))))
        ELSE as_str

\* re.sub(r'\.\w+', parse_dot_references, line) from index i on
RECURSIVE substitute_from(_, _, _)
substitute_from(cfg, line, i) ==
    IF i > Len(line) THEN [ok |-> TRUE, text |-> <<>>]
    ELSE LET n == RunLen(line, i + 1, {c \in {line[j] : j \in 1..Len(line)} : c \notin WordChars})
         IN  IF line[i] = "." /\ n > 0
             THEN LET r == parse_dot_references(cfg, SubSeq(line, i + 1, i + n))
                      rest == substitute_from(cfg, line, i + n + 1)
                  IN  [ok |-> r.t = "str" /\ rest.ok, text |-> r.s \o rest.text]
             ELSE LET rest == substitute_from(cfg, line, i + 1)
                  IN  [ok |-> rest.ok, text |-> <<line[i]>> \o rest.text]

substitute(cfg, line) == substitute_from(cfg, line, 1)

(***************************************************************************)
(* Splitting a line into words                                             *)
(***************************************************************************)

\* str.split(): the maximal runs of non-whitespace, from index i on
RECURSIVE split_from(_, _)
split_from(s, i) ==
    LET b == SkipWs(s, i)
        n == RunLen(s, b, WS)
    IN  IF b > Len(s) THEN <<>>
        ELSE <<SubSeq(s, b, b + n - 1)>> \o split_from(s, b + n)

split(s) == split_from(s, 1)

\* re.search(r'^(\S*)\s(.*)$', line) of lab.parse: command and args, args absent
\* (None) when the line holds no whitespace after its first run of non-whitespace
split_command(line) ==
    LET n == RunLen(line, 1, WS) IN
    IF n < Len(line)
    THEN [command |-> SubSeq(line, 1, n), has_args |-> TRUE,
          args |-> SubSeq(line, n + 2, Len(line))]
    ELSE [command |-> line, has_args |-> FALSE, args |-> <<>>]

\* re.match(r'(\S*)(.*)$', args) of dev.dev: experiment and the rest
split_experiment(args) ==
    LET n == RunLen(args, 1, WS) IN
    [experiment |-> SubSeq(args, 1, n), args |-> SubSeq(args, n + 1, Len(args))]

Quotes == {"\"", "'"}

\* one match of r'(?:([^\s\'"]+)|"([^"]*)"|\'([^\']*)\')+' continued at index q:
\* g is what the three groups captured last, n the number of repetitions so far
RECURSIVE term_from(_, _, _, _)
term_from(s, q, g, n) ==
    IF q > Len(s) THEN [next |-> q, g |-> g, n |-> n]
    ELSE IF s[q] \notin WS \cup Quotes
    THEN LET r == RunLen(s, q, WS \cup Quotes)
         IN  term_from(s, q + r, [g EXCEPT ![1] = SubSeq(s, q, q + r - 1)], n + 1)
    ELSE IF s[q] = "\"" /\ IndexOf(s, q + 1, "\"") > 0
    THEN LET j == IndexOf(s, q + 1, "\"")
         IN  term_from(s, j + 1, [g EXCEPT ![2] = SubSeq(s, q + 1, j - 1)], n + 1)
    ELSE IF s[q] = "'" /\ IndexOf(s, q + 1, "'") > 0
    THEN LET j == IndexOf(s, q + 1, "'")
         IN  term_from(s, j + 1, [g EXCEPT ![3] = SubSeq(s, q + 1, j - 1)], n + 1)
    ELSE [next |-> q, g |-> g, n |-> n]

\* re.findall(regex, args) and match[0] or match[1] or match[2], from index p on
RECURSIVE findall_from(_, _)
findall_from(s, p) ==
    IF p > Len(s) THEN <<>>
    ELSE LET m == term_from(s, p, <<<<>>, <<>>, <<>>>>, 0)
             term == IF m.g[1] # <<>> THEN m.g[1]
                     ELSE IF m.g[2] # <<>> THEN m.g[2] ELSE m.g[3]
         IN  IF m.n = 0 THEN findall_from(s, p + 1)
             ELSE <<term>> \o findall_from(s, m.next)

\* dev.parse_args
parse_args(args) == IF args = <<>> THEN << <<>> >> ELSE findall_from(args, 1)

(***************************************************************************)
(* The handlers.  A handler maps the record r of what it reads and writes  *)
(* (the session state, the lines printed so far, the exception raised) to  *)
(* the record after it; env is what the outside world answers: the SDK's   *)
(* outcome and token, and what the user types at the Email / Password      *)
(* prompts of login.                                                       *)
(***************************************************************************)

\* print(line)
say(r, line) == [r EXCEPT !.out = Append(@, line)]

\* print(line) under a condition
say_if(r, cond, line) == IF cond /\ r.raised = "None" THEN say(r, line) ELSE r

\* an exception leaves the handler
raise(r, e) == [r EXCEPT !.raised = e]

text_of_bool(b) == IF b THEN S.True ELSE S.False

is_empty_str(v) == v.t = "str" /\ v.s = <<>>

\* a bug sign_in could have: the failure message shows the password
sign_in_failure_message_clear(email, password) ==
    <<"sign_in(">> \o text_of(email) \o <<", ">> \o text_of(password) \o <<"): ">> \o <<"e">>

\* f"sign_in({email}, {'*' * min(len(password), 8)}): {e}"
sign_in_failure_message(email, password) ==
    <<"sign_in(">> \o text_of(email) \o <<", ">>
        \o Stars(IF Len(password.s) < 8 THEN Len(password.s) ELSE 8) \o <<"): ">> \o <<"e">>

\* a bug sign_in could have: the flag is set but the token is not stored
sign_in_response_no_token(r, email, token) ==
    [say(say(r, text_of(email) \o <<" logged in.">>), <<"Last login: ...">>)
        EXCEPT !.authenticated = TRUE, !.sdk = "response"]

\* backend.sign_in, after a response: get JWT token and greet user
sign_in_response(r, email, token) ==
    [say(say(r, text_of(email) \o <<" logged in.">>), <<"Last login: ...">>)
        EXCEPT !.jwt_token = token, !.authenticated = TRUE, !.sdk = "response"]

\* the except branch of backend.sign_in: len(password) raises on a value that is no str
sign_in_except(r, email, password) ==
    IF password.t # "str"
    THEN raise(r, "TypeError")
    ELSE [say(r, <<"<S> ">> \o sign_in_failure_message(email, password))
             EXCEPT !.authenticated = FALSE]

\* a bug sign_in could have: only the email is checked before the SDK is called
sign_in_email_only(r, email, password, env) ==
    IF is_empty_str(email)
    THEN say(r, <<"Invalid email or password.">>)
    ELSE IF ~r.supabase \/ env.sdk = "raise"
         THEN sign_in_except([say(say(r, <<"Logging in...">>), <<"<S> No response received.">>)
                                 EXCEPT !.sdk = "raise"], email, password)
         ELSE sign_in_response(say(r, <<"Logging in...">>), email, env.token)

\* backend.sign_in
sign_in(r, email, password, env) ==
    IF is_empty_str(email) \/ is_empty_str(password)
    THEN say(r, <<"Invalid email or password.">>)
    ELSE IF ~r.supabase \/ env.sdk = "raise"
         THEN sign_in_except([say(say(r, <<"Logging in...">>), <<"<S> No response received.">>)
                                 EXCEPT !.sdk = "raise"], email, password)
         ELSE sign_in_response(say(r, <<"Logging in...">>), email, env.token)

\* backend.sign_out
sign_out(r, env) ==
    LET r1 == say(r, <<"Logging out.">>) IN
    IF ~r.supabase THEN raise(r1, "AttributeError")
    ELSE IF env.sdk = "raise" THEN raise([r1 EXCEPT !.sdk = "raise"], "AuthError")
    ELSE [r1 EXCEPT !.jwt_token = "None", !.authenticated = FALSE, !.sdk = "ok"]

\* print('Bye.') and core.Session.running = False, unless sign_out raised
say_bye(r) == IF r.raised # "None" THEN r ELSE [say(r, <<"Bye.">>) EXCEPT !.running = FALSE]

\* a bug exit_completely could have: running is set to False before the sign-out
exit_completely_bye_first(r, env) ==
    IF r.authenticated THEN sign_out(say_bye(r), env) ELSE say_bye(r)

\* session.exit_completely
exit_completely(r, env) ==
    say_bye(IF r.authenticated THEN sign_out(r, env) ELSE r)

\* the login branch of lab.parse, the email and password read from the config
login_with(r, email0, password0, env) ==
    sign_in(say_if(say_if(r, is_empty_str(email0), <<"Email: ">>),
                   is_empty_str(password0), <<"Password: ">>),
            IF is_empty_str(email0) THEN StrVal(env.typed_email) ELSE email0,
            IF is_empty_str(password0) THEN StrVal(env.typed_password) ELSE password0,
            env)

\* the configured email and password
configured(cfg, key) ==
    IF S.email \in DOMAIN cfg /\ S.password \in DOMAIN cfg THEN cfg[key] ELSE StrVal(<<>>)

\* the login branch of lab.parse
login(r, env) ==
    login_with(r, configured(r.config, S.email), configured(r.config, S.password), env)

\* core.print_item on the config dict, from its i-th key on
RECURSIVE print_item(_, _, _)
print_item(r, indent, i) ==
    IF i > Len(r.order) THEN r
    ELSE LET key == r.order[i] IN
         IF key # S.password
         THEN print_item(say(r, indent \o key \o <<": ">> \o text_of(r.config[key])),
                         indent, i + 1)
         ELSE IF r.config[key].t # "str"
         THEN raise(r, "TypeError")
         ELSE print_item(say(r, indent \o key \o <<": ">> \o Stars(Len(r.config[key].s))),
                         indent, i + 1)

\* the value of a config key as debug prints it, None when the key is absent
text_or_None(cfg, key) == IF key \in DOMAIN cfg THEN text_of(cfg[key]) ELSE <<"None">>

\* if not filter_list or 'w' in filter_list
wanted(filter_list, w) ==
    Len(filter_list) = 0 \/ \E i \in 1..Len(filter_list) : filter_list[i] = w

\* if 'w' in filter_list
listed(filter_list, w) == \E i \in 1..Len(filter_list) : filter_list[i] = w

\* the config listing of dev.debug
debug_config(r, cond) ==
    IF cond THEN print_item(say(r, <<"config:">>), <<"   ">>, 1) ELSE r

\* dev.debug, its filter list split
debug_filtered(r, fl) ==
    say_if(say_if(debug_config(say_if(say_if(say_if(say_if(say_if(say_if(r,
        wanted(fl, S.url), <<"url = ">> \o S.default_url),
        wanted(fl, S.api_key), <<"api_key = ">> \o text_or_None(r.config, S.api_key)),
        wanted(fl, S.email), <<"email = ">> \o text_or_None(r.config, S.email)),
        wanted(fl, S.jwt_token) \/ listed(fl, S.jwt), <<"jwt_token = ", r.jwt_token>>),
        wanted(fl, S.running), <<"running = ">> \o text_of_bool(r.running)),
        wanted(fl, S.authenticated),
            <<"authenticated = ">> \o text_of_bool(r.authenticated)),
        wanted(fl, S.config)),
        listed(fl, S.tasks), <<"Tasks:">>),
        listed(fl, S.threads), <<"Threads:">>)

\* dev.debug
debug(r, has_args, args) == debug_filtered(r, IF has_args THEN split(args) ELSE <<>>)

\* dev.explore: prints the SDK's session object, which the model does not hold
explore(r, env) ==
    IF r.authenticated
    THEN (IF ~r.supabase \/ env.sdk = "raise" THEN say(r, <<"explore(): error">>)
          ELSE say(r, <<"session data">>))
    ELSE say(r, <<"login?">>)

\* dev.edge
edge(r, args) ==
    LET pa == parse_args(args) IN
    IF Len(pa) < 2 THEN raise(r, "IndexError")
    ELSE LET r1 == [r EXCEPT !.edge_call = [called |-> TRUE, endpoint |-> pa[1],
                                            payload_str |-> replace(pa[2], NUL, " ")]]
         IN  IF S.url \notin DOMAIN r.config THEN raise(r1, "KeyError")
             ELSE IF r.config[S.url].t # "str" THEN raise(r1, "TypeError")
             ELSE say(r1, <<"edge_function response">>)

\* asyncio.create_task(...) of dev.dev
spawn(r, kind, args) == [r EXCEPT !.spawn = <<[kind |-> kind, args |-> args]>>]

\* dev.dev
dev(r, has_args, args0, env) ==
    IF ~has_args
    THEN say(say(say(r, <<"dev?">>), <<"   explore [args]">>), <<"   ping [args]">>)
    ELSE LET m == split_experiment(args0)
             experiment == m.experiment
             args == m.args
         IN  IF experiment = S.explore THEN explore(r, env)
             ELSE IF experiment = S.beep THEN spawn(r, "beep", args)
             ELSE IF experiment = S.edge THEN edge(r, args)
             ELSE IF experiment \in {S.subscribe, S.sub} THEN spawn(r, "sub", args)
             ELSE IF experiment \in {S.unsubscribe, S.unsub} THEN spawn(r, "unsub", args)
             ELSE IF experiment \in {S.listchannels, S.lschan} THEN spawn(r, "lschan", args)
             ELSE IF experiment \in {S.listenchan, S.lchan} THEN spawn(r, "lchan", args)
             ELSE IF experiment \in {S.sendchan, S.schan} THEN spawn(r, "schan", args)
             ELSE IF experiment \in {S.listendb, S.ldb} THEN spawn(r, "ldb", args)
             ELSE IF experiment = S.ping THEN say(r, <<"ping ">> \o args)
             ELSE say(r, experiment \o <<"?">>)

\* the unknown-command branch of lab.parse
unknown_command(r, command) ==
    say(say(say(say(r, command \o <<"?">>), <<"   login">>), <<"   exit">>),
        <<"   print [text]">>)

\* the handler lab.parse dispatches a command word to
handler_of(command) ==
    IF command = <<>> THEN "nothing"
    ELSE IF command = S.login THEN "login"
    ELSE IF command = S.exit THEN "exit"
    ELSE IF command = S.print THEN "print"
    ELSE IF command = S.logout THEN "logout"
    ELSE IF command = S.debug THEN "debug"
    ELSE IF command = S.dev THEN "dev"
    ELSE "unknown"

\* a bug parse could have: an unknown command falls through to logout
dispatch_unknown_logs_out(r, h, m, env) ==
    CASE h = "nothing" -> r
      [] h = "login" -> login(r, env)
      [] h = "exit" -> exit_completely(r, env)
      [] h = "print" -> say(r, IF m.has_args THEN m.args ELSE <<>>)
      [] h = "logout" -> sign_out(r, env)
      [] h = "debug" -> debug(r, m.has_args, m.args)
      [] h = "dev" -> dev(r, m.has_args, m.args, env)
      [] OTHER -> [unknown_command(r, m.command) EXCEPT !.jwt_token = "None",
                                                        !.authenticated = FALSE]

\* the if / elif chain of lab.parse on the command word m.command, h its branch
dispatch(r, h, m, env) ==
    CASE h = "nothing" -> r
      [] h = "login" -> login(r, env)
      [] h = "exit" -> exit_completely(r, env)
      [] h = "print" -> say(r, IF m.has_args THEN m.args ELSE <<>>)
      [] h = "logout" -> sign_out(r, env)
      [] h = "debug" -> debug(r, m.has_args, m.args)
      [] h = "dev" -> dev(r, m.has_args, m.args, env)
      [] OTHER -> unknown_command(r, m.command)

\* lab.parse on the line split into command and args
parse_split(r, m, env) ==
    dispatch([r EXCEPT !.handler = handler_of(m.command), !.command = m.command],
             handler_of(m.command), m, env)

\* lab.parse
parse(r, line, env) == parse_split(r, split_command(line), env)

\* re.sub's outcome handed on: a TypeError, or the substituted line to lab.parse
prompt_substituted(r, sub, env) ==
    IF ~sub.ok THEN raise(r, "TypeError") ELSE parse(r, sub.text, env)

\* one pass of the body of lab.prompt's loop up to the session check: the references
\* of the line are substituted (re.sub raises TypeError on a value that is no str),
\* then the line is parsed
prompt_line(r, line, env) == prompt_substituted(r, substitute(r.config, line), env)

(***************************************************************************)
(* Construction: the class attributes of core.Main / core.Session          *)
(***************************************************************************)

\* an empty dict
EmptyMap == [k \in {} |-> 0]

\* the number of dev.sub / dev.unsub / dev.lschan tasks alive at a time
MaxChans == 2

\* the number of channel tasks alive at a time next to the full set of commands
MaxReplChans == 1

\* the number of dev.beep tasks alive at a time
MaxBeeps == 2

\* the number of channels the realtime SDK creates in one run
MaxSdkChannels == 2

\* no beep_interval / beep_duration yet
NoTime == [t |-> "none", v |-> 0, s |-> <<>>]

\* a task slot of the event loop that holds no task
FreeSlot ==
    [kind |-> "none", args |-> <<>>, pc |-> "free", sub |-> 0, result |-> 0, listed |-> {},
     id |-> 0, interval |-> NoTime, duration |-> NoTime, run |-> "none", seq |-> 0,
     elapsed |-> FALSE, error |-> "None", sent |-> <<>>]

\* a task asyncio.create_task has just made
new_task(sp) == [FreeSlot EXCEPT !.kind = sp.kind, !.args = sp.args, !.pc = "new"]

\* the first free slot of a task pool (0 if none)
free_slot(pool) ==
    IF \A i \in DOMAIN pool : pool[i].pc # "free" THEN 0
    ELSE CHOOSE i \in DOMAIN pool : pool[i].pc = "free" /\ \A j \in 1..(i - 1) : pool[j].pc # "free"

\* no call of dev.edge yet
NoEdgeCall == [called |-> FALSE, endpoint |-> <<>>, payload_str |-> <<>>]

\* no input line dispatched yet
NoDispatch ==
    [handler |-> "none", command |-> <<>>, sdk |-> "none",
     env |-> [sdk |-> "ok", token |-> "None", typed_email |-> <<>>, typed_password |-> <<>>],
     prompt |-> "none", get_user |-> "none",
     before |-> [running |-> TRUE, authenticated |-> FALSE, jwt_token |-> "None"]]

InitSession ==
    /\ running = TRUE
    /\ authenticated = FALSE
    /\ jwt_token = "None"
    /\ supabase = FALSE

InitRepl ==
    /\ pc = "start"
    /\ line_in = <<>>
    /\ out = <<>>
    /\ raised = "None"
    /\ last = NoDispatch
    /\ edge_call = NoEdgeCall

InitBeep(n) ==
    /\ beeping = EmptyMap
    /\ beeps = [i \in 1..n |-> FreeSlot]

InitChan(n) ==
    /\ subscriptions = EmptyMap
    /\ chans = [i \in 1..n |-> FreeSlot]
    /\ sdk_channels = <<>>

(***************************************************************************)
(* The config loader as lab.py runs it: get_config(['default.cfg']), then  *)
(* get_config(sys.argv[1:])                                                *)
(***************************************************************************)

\* the number of config lines parsed in one run
MaxCfgLines == 3

\* the lines a config file is made of in this model
CfgLines == {
    <<"k"," ","="," ","v">>,                                    \* 'k = v'
    <<"k","=","T","r","u","e">>,                                \* 'k=True'
    <<"j"," ","=">>,                                            \* 'j ='
    <<"j"," ","="," ","0">>,                                    \* 'j = 0'
    <<"j"," ","="," ","N","o">>,                                \* 'j = No'
    <<"#"," ","k"," ","="," ","v">>,                            \* '# k = v'
    <<"k"," ","v">>,                                            \* 'k v'
    <<"j"," ","="," ","{","a"," ","b","}"," ","c"," ","d">>,    \* 'j = {a b} c d'
    <<" "," ","k"," "," ","="," "," ","1"," ">> }               \* '  k  =  1 '

InitCfg ==
    /\ cfg_phase = "default"
    /\ loaded = <<>>
    /\ config = EmptyMap
    /\ config_order = <<>>
    /\ InitSession /\ InitRepl /\ InitBeep(0) /\ InitChan(0)

\* one iteration of get_config's loop over the lines of its files
get_config_step(line) ==
    /\ cfg_phase \in {"default", "argv"}
    /\ Len(loaded) < MaxCfgLines
    /\ loaded' = Append(loaded, [file |-> cfg_phase, text |-> line])
    /\ config' = get_config_line(config, line)
    /\ config_order' = get_config_line_order(config_order, line)
    /\ UNCHANGED <<cfg_phase, session_vars, repl_vars, beep_vars, chan_vars>>

\* get_config returns: its files are read to the end, or one of them is missing
get_config_return ==
    /\ cfg_phase \in {"default", "argv"}
    /\ cfg_phase' = IF cfg_phase = "default" THEN "argv" ELSE "loaded"
    /\ UNCHANGED <<loaded, config_vars, session_vars, repl_vars, beep_vars, chan_vars>>

NextCfg ==
    \/ \E line \in CfgLines : get_config_step(line)
    \/ get_config_return

SpecCfg == InitCfg /\ [][NextCfg]_vars

\* what a single config line assigns, on its own
AssignedBy(line) == get_config_line(EmptyMap, line)

\* the index of the last parsed line that assigns key k (0 if none)
LastAssigning(k) ==
    LET hits == {i \in 1..Len(loaded) : k \in DOMAIN AssignedBy(loaded[i].text)}
    IN  IF hits = {} THEN 0 ELSE CHOOSE i \in hits : \A h \in hits : h <= i

AssignedKeys == UNION {DOMAIN AssignedBy(loaded[i].text) : i \in 1..Len(loaded)}

\* C2: after any sequence of parsed config lines (default.cfg first, then the
\* command-line files), the mapping holds exactly the keys some line assigned, each
\* with the value of the last parsed line that assigned it
C2_LastAssignmentWins ==
    /\ DOMAIN config = AssignedKeys
    /\ \A k \in DOMAIN config :
         config[k] = AssignedBy(loaded[LastAssigning(k)].text)[k]

\* a key set by default.cfg and set again, differently, by a command-line file
C2_Witness ==
    /\ cfg_phase = "loaded"
    /\ \E i, j \in 1..Len(loaded) :
         /\ i < j
         /\ loaded[i].file = "default" /\ loaded[j].file = "argv"
         /\ \E k \in DOMAIN AssignedBy(loaded[i].text) \cap DOMAIN AssignedBy(loaded[j].text) :
              /\ AssignedBy(loaded[i].text)[k] # AssignedBy(loaded[j].text)[k]
              /\ config[k] = AssignedBy(loaded[j].text)[k]

\* the text after '=' (and the whitespace after it) of the last line assigning k
RawValue(k) == match_line(strip(loaded[LastAssigning(k)].text)).value

\* C3: a value whose lower-cased text is t, true, y or 1 is stored as True, one whose
\* lower-cased text is f, false, n or 0 as False, every other value (the empty one
\* included) as a string
C3_BooleanCoercion ==
    \A k \in DOMAIN config :
        LET v == lower(RawValue(k)) IN
        /\ v \in {<<"t">>, <<"t","r","u","e">>, <<"y">>, <<"1">>}
              => config[k] = [t |-> "bool", s |-> <<>>, b |-> TRUE]
        /\ v \in {<<"f">>, <<"f","a","l","s","e">>, <<"n">>, <<"0">>}
              => config[k] = [t |-> "bool", s |-> <<>>, b |-> FALSE]
        /\ v \notin {<<"t">>, <<"t","r","u","e">>, <<"y">>, <<"1">>,
                     <<"f">>, <<"f","a","l","s","e">>, <<"n">>, <<"0">>}
              => config[k].t = "str"

\* 'k=True' is stored as True and 'j =' as the empty string
C3_Witness ==
    /\ <<"k">> \in DOMAIN config /\ <<"j">> \in DOMAIN config
    /\ RawValue(<<"k">>) = <<"T","r","u","e">>
    /\ config[<<"k">>] = BoolVal(TRUE)
    /\ RawValue(<<"j">>) = <<>>
    /\ config[<<"j">>] = StrVal(<<>>)

(***************************************************************************)
(* The REPL: backend.connect, then lab.prompt's loop                       *)
(***************************************************************************)

\* what a handler starts from
handler_input ==
    [config |-> config, order |-> config_order, supabase |-> supabase,
     running |-> running, authenticated |-> authenticated, jwt_token |-> jwt_token,
     out |-> <<>>, raised |-> "None", edge_call |-> edge_call, spawn |-> <<>>,
     handler |-> "none", command |-> <<>>, sdk |-> "none"]

\* the tokens the SDK hands out
Tokens == {"jwt1", "jwt2"}

\* what the user types at the Email / Password prompts of login
Typed == {<<>>, <<"u">>}

\* the answers of the outside world to one input line
Envs == [sdk : {"ok", "raise"}, token : Tokens, typed_email : Typed, typed_password : Typed]

\* the answer a handler gets when it asks nothing
NoEnv == [sdk |-> "ok", token |-> "jwt1", typed_email |-> <<>>, typed_password |-> <<>>]

\* the answers the handler of a line can tell apart: login asks the user and the SDK,
\* logout, exit and dev (explore) ask the SDK, the others ask nothing
envs_for(line) ==
    LET h == handler_of(split_command(line).command) IN
    IF h = "login" THEN Envs
    ELSE IF h \in {"logout", "exit", "dev"}
    THEN {e \in Envs : e.token = NoEnv.token /\ e.typed_email = <<>> /\ e.typed_password = <<>>}
    ELSE {NoEnv}

\* a task that has ended is dropped before anything else runs
ended_task ==
    \/ \E i \in DOMAIN chans : chans[i].pc \in {"done", "failed"}
    \/ \E i \in DOMAIN beeps : beeps[i].pc \in {"done", "failed"}

\* The event loop runs the tasks while lab.prompt awaits.  A task step commutes with
\* the rest of the loop body (the tasks read and write neither running, authenticated
\* nor jwt_token), so it is taken at the await of the input line.
loop_runs == pc = "prompt" /\ ~ended_task

\* backend.connect
connect(outcome) ==
    /\ pc = "start"
    /\ pc' = "prompt"
    /\ IF S.api_key \in DOMAIN config
       THEN /\ config' = assign(config, S.url,
                                IF S.url \in DOMAIN config THEN config[S.url]
                                ELSE StrVal(S.default_url))
            /\ config_order' = ordered(config_order, S.url)
            /\ supabase' = (outcome = "ok")
       ELSE UNCHANGED <<config_vars, supabase>>
    /\ UNCHANGED <<cfg_vars, running, authenticated, jwt_token, line_in, out, raised,
                   last, edge_call, beep_vars, chan_vars>>

\* input_prompt = core.Session.prompt if core.Session.authenticated else
\* core.Main.auth_prompt
input_prompt(auth) == IF auth THEN "session" ELSE "auth"

\* what one pass of the loop body leaves behind: r is the record after the handler
prompt_effects(r, line, env) ==
    /\ r.spawn # <<>> /\ r.spawn[1].kind = "beep" => free_slot(beeps) # 0
    /\ r.spawn # <<>> /\ r.spawn[1].kind # "beep" => free_slot(chans) # 0
    /\ pc' = IF r.raised = "None" THEN "detect" ELSE "ended"
    /\ line_in' = line
    /\ out' = r.out
    /\ raised' = r.raised
    /\ last' = [handler |-> r.handler, command |-> r.command, sdk |-> r.sdk,
                env |-> env,
                prompt |-> input_prompt(authenticated), get_user |-> "none",
                before |-> [running |-> running, authenticated |-> authenticated,
                            jwt_token |-> jwt_token]]
    /\ edge_call' = r.edge_call
    /\ running' = r.running
    /\ authenticated' = r.authenticated
    /\ jwt_token' = r.jwt_token
    /\ beeps' = IF r.spawn # <<>> /\ r.spawn[1].kind = "beep"
                THEN [beeps EXCEPT ![free_slot(beeps)] = new_task(r.spawn[1])] ELSE beeps
    /\ chans' = IF r.spawn # <<>> /\ r.spawn[1].kind # "beep"
                THEN [chans EXCEPT ![free_slot(chans)] = new_task(r.spawn[1])] ELSE chans

\* the prompt is shown, a line is read, its references are substituted and it is parsed
prompt_read(line, env) ==
    /\ pc = "prompt"
    /\ running
    /\ ~ended_task
    /\ env \in envs_for(line)
    /\ prompt_effects(prompt_line(handler_input, line, env), line, env)
    /\ UNCHANGED <<cfg_vars, config_vars, supabase, beeping, subscriptions, sdk_channels>>

\* await core.Session.supabase.auth.get_user(): it raises when the SDK says so, and
\* always when no client is connected (None has no attribute auth)
get_user(connected, outcome) == IF ~connected \/ outcome = "raise" THEN "raise" ELSE "ok"

\* a bug prompt could have: the exception of get_user is swallowed and nothing is set
detect_nothing(outcome) ==
    /\ pc = "detect"
    /\ pc' = "prompt"
    /\ authenticated' = authenticated
    /\ line_in' = <<>>
    /\ out' = <<>>
    /\ last' = [NoDispatch EXCEPT !.get_user = get_user(supabase, outcome)]
    /\ edge_call' = NoEdgeCall
    /\ UNCHANGED <<cfg_vars, config_vars, running, jwt_token, supabase, raised,
                   beep_vars, chan_vars>>

\* detect terminated session: the try / except around get_user
detect(outcome) ==
    /\ pc = "detect"
    /\ pc' = "prompt"
    /\ authenticated' = IF get_user(supabase, outcome) = "raise" THEN FALSE ELSE authenticated
    /\ line_in' = <<>>
    /\ out' = <<>>
    /\ last' = [NoDispatch EXCEPT !.get_user = get_user(supabase, outcome)]
    /\ edge_call' = NoEdgeCall
    /\ UNCHANGED <<cfg_vars, config_vars, running, jwt_token, supabase, raised,
                   beep_vars, chan_vars>>

\* while core.Main.running: the loop ends, main returns
prompt_return ==
    /\ pc = "prompt"
    /\ ~running
    /\ pc' = "ended"
    /\ UNCHANGED <<cfg_vars, config_vars, session_vars, line_in, out, raised, last,
                   edge_call, beep_vars, chan_vars>>

(***************************************************************************)
(* The channel tasks: dev.sub, dev.unsub and dev.lschan, each started by   *)
(* asyncio.create_task and run by the event loop while the REPL awaits.    *)
(* A subscription is the index of its channel in sdk_channels; 0 is False. *)
(***************************************************************************)

\* a bug subscribe_channel could have: the registry is not consulted
subscribe_channel_entry_always_new(subs, connected, name, force) ==
    IF ~connected THEN "not_connected"
    ELSE IF ~force THEN "refused"
    ELSE "create"

\* backend.subscribe_channel up to its first await
subscribe_channel_entry(subs, connected, name, force) ==
    IF ~connected THEN "not_connected"
    ELSE IF name \in DOMAIN subs THEN "registered"
    ELSE IF ~force THEN "refused"
    ELSE "create"

\* backend.unsubscribe_channel up to its await
unsubscribe_channel_entry(subs, connected, name) ==
    IF ~connected THEN "return"
    ELSE IF name \notin DOMAIN subs THEN "return"
    ELSE IF subs[name] # 0 THEN "unsubscribe"
    ELSE "return"

\* backend.register_channel
register_channel(subs, name, subscription) ==
    IF subscription # 0 THEN assign(subs, name, subscription) ELSE subs

\* a bug unsubscribe_channel could have: the name stays in the registry
del_nothing(subs, name) == subs

\* del core.Session.subscriptions[channel_name]
del(subs, name) == [k \in DOMAIN subs \ {name} |-> subs[k]]

\* arg_strings = parse_args(args) of dev.schan
arg_strings(t) == parse_args(t.args)

\* channel_name = args.strip() of dev.sub and dev.unsub, arg_strings[0] of dev.schan
channel_name(t) == IF t.kind = "schan" THEN arg_strings(t)[1] ELSE strip(t.args)

\* event = arg_strings[1] if len(arg_strings) > 2 else 'test'
schan_event(t) == IF Len(arg_strings(t)) > 2 THEN arg_strings(t)[2] ELSE S.test

\* message = arg_strings[-1]
schan_message(t) == arg_strings(t)[Len(arg_strings(t))]

\* subscription.send_broadcast(event, payload) is called on the subscription sub
send_broadcast(t, sub) ==
    [t EXCEPT !.pc = "sending", !.sub = sub,
              !.sent = <<[sub |-> sub, event |-> schan_event(t), payload |-> schan_message(t)]>>]

\* a task runs from its start to its first await, or to its end
chan_start(i) ==
    /\ loop_runs
    /\ chans[i].pc = "new"
    /\ chans[i].kind \in {"sub", "unsub", "lschan"}
    /\ LET t == chans[i]
           name == channel_name(t)
       IN  CASE t.kind = "sub" ->
                 LET e == subscribe_channel_entry(subscriptions, supabase, name, TRUE) IN
                 /\ chans' = [chans EXCEPT ![i] =
                        IF e = "registered"
                        THEN [t EXCEPT !.pc = "done", !.result = subscriptions[name]]
                        ELSE IF e = "create" THEN [t EXCEPT !.pc = "connecting"]
                        ELSE [t EXCEPT !.pc = "done"]]
                 /\ UNCHANGED <<subscriptions, sdk_channels>>
             [] t.kind = "unsub" ->
                 LET e == unsubscribe_channel_entry(subscriptions, supabase, name) IN
                 /\ chans' = [chans EXCEPT ![i] =
                        IF e = "unsubscribe"
                        THEN [t EXCEPT !.pc = "unsubscribing", !.sub = subscriptions[name]]
                        ELSE [t EXCEPT !.pc = "done"]]
                 /\ UNCHANGED <<subscriptions, sdk_channels>>
             [] t.kind = "lschan" ->
                 /\ chans' = [chans EXCEPT ![i] =
                        [t EXCEPT !.pc = "done", !.listed = DOMAIN subscriptions]]
                 /\ UNCHANGED <<subscriptions, sdk_channels>>
    /\ UNCHANGED <<cfg_vars, config_vars, session_vars, repl_vars, beep_vars>>

\* the SDK call a task awaits returns or raises, and the task runs on: client.connect()
\* is followed by client.channel(...), channel.subscribe(...) by register_channel,
\* subscription.unsubscribe() by the del
chan_resume(i, outcome) ==
    /\ loop_runs
    /\ chans[i].pc \in {"connecting", "subscribing", "unsubscribing"}
    /\ LET t == chans[i] IN
       IF outcome = "raise"
       THEN /\ chans' = [chans EXCEPT ![i] = [t EXCEPT !.pc = "failed"]]
            /\ UNCHANGED <<subscriptions, sdk_channels>>
       ELSE CASE t.pc = "connecting" ->
                 /\ Len(sdk_channels) < MaxSdkChannels
                 /\ sdk_channels' = Append(sdk_channels, "open")
                 /\ chans' = [chans EXCEPT ![i] =
                        [t EXCEPT !.pc = "subscribing", !.sub = Len(sdk_channels) + 1]]
                 /\ UNCHANGED subscriptions
              [] t.pc = "subscribing" ->
                 /\ subscriptions' = register_channel(subscriptions, channel_name(t), t.sub)
                 /\ chans' = [chans EXCEPT ![i] =
                        IF t.kind = "schan" THEN send_broadcast(t, t.sub)
                        ELSE [t EXCEPT !.pc = "done", !.result = t.sub]]
                 /\ UNCHANGED sdk_channels
              [] t.pc = "unsubscribing" ->
                 /\ sdk_channels' = [sdk_channels EXCEPT ![t.sub] = "closed"]
                 /\ IF channel_name(t) \in DOMAIN subscriptions
                    THEN /\ subscriptions' = del(subscriptions, channel_name(t))
                         /\ chans' = [chans EXCEPT ![i] = [t EXCEPT !.pc = "done"]]
                    ELSE /\ UNCHANGED subscriptions
                         /\ chans' = [chans EXCEPT ![i] = [t EXCEPT !.pc = "failed"]]
    /\ UNCHANGED <<cfg_vars, config_vars, session_vars, repl_vars, beep_vars>>

\* a bug send_to_broadcast_channel could have: subscribe_channel is called with its
\* default force = True
send_subscription_forced(subs, connected, name) ==
    subscribe_channel_entry(subs, connected, name, TRUE)

\* subscription = await subscribe_channel(channel_name, event, False)
send_subscription(subs, connected, name) ==
    subscribe_channel_entry(subs, connected, name, FALSE)

\* dev.schan and backend.send_to_broadcast_channel up to await realtime.connect():
\* arg_strings[0] raises IndexError on an empty list, check_connection returns False
\* in a session that is not connected
schan_start(i) ==
    /\ loop_runs
    /\ chans[i].pc = "new"
    /\ chans[i].kind = "schan"
    /\ chans' = [chans EXCEPT ![i] =
           IF arg_strings(@) = <<>> THEN [@ EXCEPT !.pc = "failed", !.error = "IndexError"]
           ELSE IF ~supabase THEN [@ EXCEPT !.pc = "done"]
           ELSE [@ EXCEPT !.pc = "realtime_connecting"]]
    /\ UNCHANGED <<cfg_vars, config_vars, session_vars, repl_vars, beep_vars,
                   subscriptions, sdk_channels>>

\* send_to_broadcast_channel after realtime.connect(): subscribe_channel is asked
\* for the subscription and, unless it answered False, send_broadcast is called;
\* and after send_broadcast: print(f"TO {channel_name}: {payload}")
schan_resume(i, outcome) ==
    /\ loop_runs
    /\ chans[i].pc \in {"realtime_connecting", "sending"}
    /\ LET t == chans[i]
           e == send_subscription(subscriptions, supabase, channel_name(t))
       IN  chans' = [chans EXCEPT ![i] =
               IF outcome = "raise" THEN [t EXCEPT !.pc = "failed"]
               ELSE IF t.pc = "sending" THEN [t EXCEPT !.pc = "done", !.result = t.sub]
               ELSE IF e = "registered" THEN send_broadcast(t, subscriptions[channel_name(t)])
               ELSE IF e = "create" THEN [t EXCEPT !.pc = "connecting"]
               ELSE [t EXCEPT !.pc = "done"]]
    /\ UNCHANGED <<cfg_vars, config_vars, session_vars, repl_vars, beep_vars,
                   subscriptions, sdk_channels>>

\* the event loop drops a task that has ended
chan_reap(i) ==
    /\ pc = "prompt"
    /\ chans[i].pc \in {"done", "failed"}
    /\ chans' = [chans EXCEPT ![i] = FreeSlot]
    /\ UNCHANGED <<cfg_vars, config_vars, session_vars, repl_vars, beep_vars,
                   subscriptions, sdk_channels>>

(***************************************************************************)
(* The beep tasks: dev.beep and the dev.run_beep task it creates           *)
(***************************************************************************)

\* the length of the longest run of characters of s from index i that are in set
RECURSIVE Span(_, _, _)
Span(s, i, set) == IF i <= Len(s) /\ s[i] \in set THEN 1 + Span(s, i + 1, set) ELSE 0

DigitOf == [c \in Digits |->
    CASE c = "0" -> 0 [] c = "1" -> 1 [] c = "2" -> 2 [] c = "3" -> 3 [] c = "4" -> 4
      [] c = "5" -> 5 [] c = "6" -> 6 [] c = "7" -> 7 [] c = "8" -> 8 [] c = "9" -> 9]

\* int(s) of a string of digits
RECURSIVE int_of(_)
int_of(s) ==
    IF s = <<>> THEN 0 ELSE 10 * int_of(SubSeq(s, 1, Len(s) - 1)) + DigitOf[s[Len(s)]]

\* time_suffix_regex
TimeSuffixes == {"s", "m", "h", "S", "M", "H"}

\* TIME_SUFFIX_DICT
TIME_SUFFIX_DICT == [c \in {"s", "m", "h"} |->
    CASE c = "s" -> 1 [] c = "m" -> 60 [] c = "h" -> 60 * 60]

\* the index after the match of float_regex at index i of s (0 if none)
float_end(s, i) ==
    IF Span(s, i, Digits) > 0
    THEN (IF i + Span(s, i, Digits) <= Len(s) /\ s[i + Span(s, i, Digits)] = "."
             /\ Span(s, i + Span(s, i, Digits) + 1, Digits) > 0
          THEN i + Span(s, i, Digits) + 1 + Span(s, i + Span(s, i, Digits) + 1, Digits)
          ELSE i + Span(s, i, Digits))
    ELSE IF i <= Len(s) /\ s[i] = "." /\ Span(s, i + 1, Digits) > 0
    THEN i + 1 + Span(s, i + 1, Digits)
    ELSE 0

\* the index after the match of float_regex time_suffix_regex at index i of s (0 if none)
time_end(s, i) ==
    IF float_end(s, i) = 0 THEN 0
    ELSE IF float_end(s, i) <= Len(s) /\ s[float_end(s, i)] \in TimeSuffixes
    THEN float_end(s, i) + 1
    ELSE float_end(s, i)

\* the four re.match of dev.beep on the stripped args, e1 the end of the first time,
\* w1 the start of what follows its whitespace, e2 the end of a second time there and
\* w2 the start of what follows that: the third match reads a group that is not there
beep_matched(a, e1, w1, e2, w2) ==
    IF e2 # 0 /\ w2 > e2 /\ w2 <= Len(a)
    THEN [err |-> "None", interval |-> SubSeq(a, 1, e1 - 1), duration |-> SubSeq(a, w1, e2 - 1)]
    ELSE IF e2 # 0 /\ e2 > Len(a)
    THEN [err |-> "None", interval |-> SubSeq(a, 1, e1 - 1), duration |-> SubSeq(a, w1, e2 - 1)]
    ELSE IF e1 # 0 /\ w1 > e1 /\ w1 <= Len(a) /\ a[w1] \notin Digits
    THEN [err |-> "IndexError", interval |-> SubSeq(a, 1, e1 - 1), duration |-> <<"1", "0">>]
    ELSE IF e1 # 0 /\ e1 > Len(a)
    THEN [err |-> "None", interval |-> SubSeq(a, 1, e1 - 1), duration |-> <<"1", "0">>]
    ELSE [err |-> "None", interval |-> <<"1">>, duration |-> <<"1", "0">>]

\* a second time is looked for only after whitespace
beep_second(a, e1, w1) ==
    beep_matched(a, e1, w1, IF e1 # 0 /\ w1 > e1 THEN time_end(a, w1) ELSE 0,
                 IF e1 # 0 /\ w1 > e1 /\ time_end(a, w1) # 0
                 THEN SkipWs(a, time_end(a, w1)) ELSE 0)

\* get beep parameters: beep_interval and beep_duration as the strings matched
beep_params(a) == beep_second(a, time_end(a, 1), IF time_end(a, 1) = 0 THEN 0
                                                   ELSE SkipWs(a, time_end(a, 1)))

\* parse beep time suffixes: re.match(rf'^(\d*)({time_suffix_regex})$', token) and
\* float(m.group(1)) * TIME_SUFFIX_DICT[time_suffix]; a token that does not match stays
\* the string it is
time_of(token) ==
    IF Span(token, 1, Digits) = Len(token)
    THEN (IF token = <<>> THEN [t |-> "ValueError", v |-> 0, s |-> token]
          ELSE [t |-> "float", v |-> int_of(token), s |-> <<>>])
    ELSE IF Span(token, 1, Digits) = Len(token) - 1 /\ token[Len(token)] \in TimeSuffixes
    THEN (IF Len(token) = 1 THEN [t |-> "ValueError", v |-> 0, s |-> token]
          ELSE IF token[Len(token)] \notin DOMAIN TIME_SUFFIX_DICT
          THEN [t |-> "KeyError", v |-> 0, s |-> token]
          ELSE [t |-> "float", s |-> <<>>,
                v |-> int_of(SubSeq(token, 1, Len(token) - 1))
                          * TIME_SUFFIX_DICT[token[Len(token)]]])
    ELSE [t |-> "str", v |-> 0, s |-> token]

\* dev.get_beep_id: the least id that is no key of config['beeping']
get_beep_id(registry) == CHOOSE n \in 0..Cardinality(DOMAIN registry) :
    n \notin DOMAIN registry /\ \A k \in 0..(n - 1) : k \in DOMAIN registry

\* dev.del_beep_id
del_beep_id(registry, beep_id) ==
    IF beep_id \in DOMAIN registry
    THEN [k \in DOMAIN registry \ {beep_id} |-> registry[k]] ELSE registry

\* re.match(r'^stop (\d*)$', args) on the stripped args
is_stop_id(a) ==
    Len(a) > 5 /\ SubSeq(a, 1, 5) = S.stop \o <<" ">> /\ Span(a, 6, Digits) = Len(a) - 5

\* the states of a run_beep task that has ended
RunEnded == {"finished", "raised", "cancelled"}

\* the most lines a run_beep task prints
MaxBeepSeq == 2

\* the most ids config['beeping'] comes to hold
MaxBeepIds == 2

\* the exception that ends dev.beep before it starts beeping
beep_failure(err, interval, duration) ==
    IF err # "None" THEN err
    ELSE IF interval.t \in {"KeyError", "ValueError"} THEN interval.t
    ELSE IF duration.t \in {"KeyError", "ValueError"} THEN duration.t
    ELSE "None"

\* dev.beep from beeping(beep_id, True) to its await: the parameters are parsed, the
\* run_beep task is created, and asyncio.sleep(beep_duration) either suspends or raises
\* TypeError on a str, whereupon the finally block cancels the task, which has not run
\* yet, and awaits it
beep_begin(i, beep_id, err, interval, duration) ==
    /\ beeping' = assign(beeping, beep_id,
                         beep_failure(err, interval, duration) # "None" \/ duration.t # "str")
    /\ beeps' = [beeps EXCEPT ![i] =
           IF beep_failure(err, interval, duration) # "None"
           THEN [@ EXCEPT !.pc = "failed", !.id = beep_id,
                          !.error = beep_failure(err, interval, duration)]
           ELSE IF duration.t = "str"
           THEN [@ EXCEPT !.pc = "awaiting", !.id = beep_id, !.interval = interval,
                          !.duration = duration, !.run = "cancel_new", !.error = "TypeError"]
           ELSE [@ EXCEPT !.pc = "sleeping", !.id = beep_id, !.interval = interval,
                          !.duration = duration, !.run = "new"]]

\* dev.beep with its parameters matched
beep_parsed(i, beep_id, p) ==
    beep_begin(i, beep_id, p.err, time_of(p.interval), time_of(p.duration))

\* dev.beep from its start to its first await, or to its end
beep_start(i) ==
    /\ loop_runs
    /\ beeps[i].pc = "new"
    /\ IF is_stop_id(strip(beeps[i].args)) \/ strip(beeps[i].args) = S.stop
       THEN /\ S.beeping \in DOMAIN config /\ is_stop_id(strip(beeps[i].args))
                   => Cardinality(DOMAIN beeping) < MaxBeepIds
                      \/ int_of(SubSeq(strip(beeps[i].args), 6, Len(strip(beeps[i].args))))
                             \in DOMAIN beeping
            /\ beeping' =
                   IF S.beeping \notin DOMAIN config THEN beeping
                   ELSE IF strip(beeps[i].args) = S.stop
                   THEN [k \in DOMAIN beeping |-> FALSE]
                   ELSE assign(beeping,
                               int_of(SubSeq(strip(beeps[i].args), 6,
                                             Len(strip(beeps[i].args)))), FALSE)
            /\ beeps' = [beeps EXCEPT ![i] =
                   IF S.beeping \notin DOMAIN config
                   THEN [@ EXCEPT !.pc = "failed", !.error = "KeyError"]
                   ELSE [@ EXCEPT !.pc = "done"]]
            /\ UNCHANGED config_vars
       ELSE /\ Cardinality(DOMAIN beeping) < MaxBeepIds
            /\ config' = IF S.beeping \in DOMAIN config THEN config
                         ELSE assign(config, S.beeping, DictVal)
            /\ config_order' = ordered(config_order, S.beeping)
            /\ beep_parsed(i, get_beep_id(beeping), beep_params(strip(beeps[i].args)))
    /\ UNCHANGED <<cfg_vars, session_vars, repl_vars, chan_vars>>

\* the run_beep task runs: it starts or its asyncio.sleep(beep_interval) returns, and it
\* runs to its next await or to its end; a task cancelled before its start never runs, a
\* task cancelled in its sleep catches CancelledError and returns
run_beep(i) ==
    /\ loop_runs
    /\ beeps[i].run \in {"new", "sleeping", "cancel_new", "cancel_sleeping"}
    /\ beeps[i].run \in {"new", "sleeping"} /\ beeping[beeps[i].id] => beeps[i].seq < MaxBeepSeq
    /\ beeps' = [beeps EXCEPT ![i] =
           IF @.run = "cancel_new" THEN [@ EXCEPT !.run = "cancelled"]
           ELSE IF @.run = "cancel_sleeping" THEN [@ EXCEPT !.run = "finished"]
           ELSE IF ~beeping[@.id] THEN [@ EXCEPT !.run = "finished"]
           ELSE [@ EXCEPT !.seq = @ + 1,
                          !.run = IF beeps[i].interval.t = "str" THEN "raised" ELSE "sleeping"]]
    /\ UNCHANGED <<cfg_vars, config_vars, session_vars, repl_vars, chan_vars, beeping>>

\* await beep_task in the finally block of dev.beep: it returns when the task has
\* returned, raises what the task raised, and suspends while the task runs
beep_finally(t) ==
    IF t.run = "finished" THEN "done"
    ELSE IF t.run \in {"raised", "cancelled"} THEN "failed"
    ELSE "awaiting"

\* beep_task.cancel()
cancel(run) ==
    IF run = "new" THEN "cancel_new" ELSE IF run = "sleeping" THEN "cancel_sleeping" ELSE run

\* the duration has elapsed: asyncio.sleep(beep_duration) returns and the finally block
\* runs to its await (the task created before the sleep has started by then)
beep_wake(i) ==
    /\ loop_runs
    /\ beeps[i].pc = "sleeping"
    /\ beeps[i].run # "new"
    /\ beeps' = [beeps EXCEPT ![i] =
           [@ EXCEPT !.elapsed = TRUE, !.run = cancel(@),
                     !.pc = beep_finally(beeps[i]),
                     !.error = IF beeps[i].run = "raised" THEN "TypeError" ELSE @]]
    /\ beeping' = IF beep_finally(beeps[i]) = "done"
                  THEN del_beep_id(assign(beeping, beeps[i].id, FALSE), beeps[i].id)
                  ELSE assign(beeping, beeps[i].id, FALSE)
    /\ UNCHANGED <<cfg_vars, config_vars, session_vars, repl_vars, chan_vars>>

\* the awaited task has ended: await beep_task returns, and del_beep_id runs, or raises
beep_join(i) ==
    /\ loop_runs
    /\ beeps[i].pc = "awaiting"
    /\ beeps[i].run \in RunEnded
    /\ beeps' = [beeps EXCEPT ![i] =
           [@ EXCEPT !.pc = beep_finally(beeps[i]),
                     !.error = IF beeps[i].run = "cancelled" THEN "CancelledError" ELSE @]]
    /\ beeping' = IF beep_finally(beeps[i]) = "done"
                  THEN del_beep_id(beeping, beeps[i].id) ELSE beeping
    /\ UNCHANGED <<cfg_vars, config_vars, session_vars, repl_vars, chan_vars>>

\* the event loop drops a beep task that has ended
beep_reap(i) ==
    /\ pc = "prompt"
    /\ beeps[i].pc \in {"done", "failed"}
    /\ beeps' = [beeps EXCEPT ![i] = FreeSlot]
    /\ UNCHANGED <<cfg_vars, config_vars, session_vars, repl_vars, chan_vars, beeping>>

(***************************************************************************)
(* The program: lab.py loads its config files, connects and prompts        *)
(***************************************************************************)

L_api_key == <<"a","p","i","_","k","e","y"," ","="," ","K">>                \* 'api_key = K'
L_email == <<"e","m","a","i","l"," ","="," ","a","@","b">>                  \* 'email = a@b'
L_password == <<"p","a","s","s","w","o","r","d"," ","="," ","p","w">>       \* 'password = pw'
L_password_1 == <<"p","a","s","s","w","o","r","d"," ","="," ","1">>         \* 'password = 1'
L_p == <<"p"," ","="," ","{","1",":"," ","2","}">>                          \* 'p = {1: 2}'
L_q == <<"q"," ","="," ","{","\"","a","\"",":"," ","\"","b"," ","c","\"","}">>  \* 'q = {"a": "b c"}'

\* the config files of this model: what default.cfg and the command-line files hold
ConfigFiles == {
    <<L_api_key, L_email, L_password, L_p, L_q>>,
    <<L_api_key, L_email, L_password_1>>,
    <<L_api_key, L_email>>,
    <<L_email>> }

\* the input lines of this model
ReplLines == {
    S.login, S.logout, S.exit, S.print, S.debug, S.dev,
    <<>>,                                                        \* ''
    <<"p","r","i","n","t"," ",".","p","a","s","s","w","o","r","d">>,  \* 'print .password'
    <<"d","e","v"," ","p","i","n","g"," ","x">>,                 \* 'dev ping x'
    <<"d","e","v"," ","e","x","p","l","o","r","e">>,             \* 'dev explore'
    <<"d","e","v"," ","e","d","g","e"," ","f","n"," ",".","p">>, \* 'dev edge fn .p'
    <<"d","e","v"," ","e","d","g","e"," ","f","n"," ",".","q">>, \* 'dev edge fn .q'
    <<"d","e","v"," ","s","u","b"," ","c">>,                     \* 'dev sub c'
    <<"f","o","o">>,                                             \* 'foo'
    <<" ","l","o","g","i","n">>,                                 \* ' login'
    <<"h","e","l","p"," ","m","e">> }                            \* 'help me'

\* lab.py has run get_config over the file
loaded_from(file) == [i \in 1..Len(file) |-> [file |-> "default", text |-> file[i]]]

Init ==
    /\ cfg_phase = "loaded"
    /\ \E file \in ConfigFiles :
         /\ loaded = loaded_from(file)
         /\ config = get_config(EmptyMap, file)
         /\ config_order = get_config_order(<<>>, file)
    /\ InitSession /\ InitRepl /\ InitBeep(0) /\ InitChan(MaxReplChans)

Next ==
    \/ \E outcome \in {"ok", "raise"} : connect(outcome)
    \/ \E line \in ReplLines, env \in Envs : prompt_read(line, env)
    \/ \E outcome \in {"ok", "raise"} : detect(outcome)
    \/ prompt_return
    \/ \E i \in DOMAIN chans : chan_start(i)
    \/ \E i \in DOMAIN chans, outcome \in {"ok", "raise"} : chan_resume(i, outcome)
    \/ \E i \in DOMAIN chans : chan_reap(i)

Spec == Init /\ [][Next]_vars

(***************************************************************************)
(* The channel commands alone, with more tasks alive at a time             *)
(***************************************************************************)

ChanLines == {
    <<"d","e","v"," ","s","u","b"," ","c">>,                     \* 'dev sub c'
    <<"d","e","v"," ","u","n","s","u","b"," ","c">>,             \* 'dev unsub c'
    <<"d","e","v"," ","s","u","b"," ","d">>,                     \* 'dev sub d'
    <<"d","e","v"," ","l","s","c","h","a","n">> }                \* 'dev lschan'

InitChans ==
    /\ cfg_phase = "loaded"
    /\ loaded = loaded_from(<<L_api_key>>)
    /\ config = get_config(EmptyMap, <<L_api_key>>)
    /\ config_order = get_config_order(<<>>, <<L_api_key>>)
    /\ InitSession /\ InitRepl /\ InitBeep(0) /\ InitChan(MaxChans)

NextChans ==
    \/ \E outcome \in {"ok", "raise"} : connect(outcome)
    \/ \E line \in ChanLines : prompt_read(line, NoEnv)
    \/ detect("ok")
    \/ \E i \in DOMAIN chans : chan_start(i)
    \/ \E i \in DOMAIN chans, outcome \in {"ok", "raise"} : chan_resume(i, outcome)
    \/ \E i \in DOMAIN chans : chan_reap(i)

SpecChan == InitChans /\ [][NextChans]_vars

(***************************************************************************)
(* The send command next to subscribe and unsubscribe                      *)
(***************************************************************************)

SendLines == {
    <<"d","e","v"," ","s","u","b"," ","c">>,                         \* 'dev sub c'
    <<"d","e","v"," ","u","n","s","u","b"," ","c">>,                 \* 'dev unsub c'
    <<"d","e","v"," ","s","c","h","a","n"," ","c"," ","h","i">>,     \* 'dev schan c hi'
    <<"d","e","v"," ","s","c","h","a","n"," ","d"," ","e"," ","x">>, \* 'dev schan d e x'
    <<"d","e","v"," ","s","c","h","a","n"," ">> }                    \* 'dev schan '

NextSends ==
    \/ \E outcome \in {"ok", "raise"} : connect(outcome)
    \/ \E line \in SendLines : prompt_read(line, NoEnv)
    \/ detect("ok")
    \/ \E i \in DOMAIN chans : chan_start(i)
    \/ \E i \in DOMAIN chans, outcome \in {"ok", "raise"} : chan_resume(i, outcome)
    \/ \E i \in DOMAIN chans : schan_start(i)
    \/ \E i \in DOMAIN chans, outcome \in {"ok", "raise"} : schan_resume(i, outcome)
    \/ \E i \in DOMAIN chans : chan_reap(i)

SpecSend == InitChans /\ [][NextSends]_vars

(***************************************************************************)
(* The beep command, with the print command to look at the config          *)
(***************************************************************************)

BeepLines == {
    <<"d","e","v"," ","b","e","e","p"," ","1"," ","2">>,             \* 'dev beep 1 2'
    <<"d","e","v"," ","b","e","e","p"," ","0",".","5"," ","2">>,     \* 'dev beep 0.5 2'
    <<"d","e","v"," ","b","e","e","p"," ","1"," ",".","5">>,         \* 'dev beep 1 .5'
    <<"d","e","v"," ","b","e","e","p"," ","2","M">>,                 \* 'dev beep 2M'
    <<"d","e","v"," ","b","e","e","p"," ","1"," ","h","i">>,         \* 'dev beep 1 hi'
    <<"d","e","v"," ","b","e","e","p"," ","s","t","o","p">>,         \* 'dev beep stop'
    <<"d","e","v"," ","b","e","e","p"," ","s","t","o","p"," ","0">>, \* 'dev beep stop 0'
    <<"p","r","i","n","t"," ",".","e","m","a","i","l"," ",".","x"," ",".","b","e","e","p","i","n","g">> }
                                                       \* 'print .email .x .beeping'

InitBeeps ==
    /\ cfg_phase = "loaded"
    /\ loaded = loaded_from(<<L_email>>)
    /\ config = get_config(EmptyMap, <<L_email>>)
    /\ config_order = get_config_order(<<>>, <<L_email>>)
    /\ InitSession /\ InitRepl /\ InitBeep(MaxBeeps) /\ InitChan(0)

NextBeeps ==
    \/ connect("ok")
    \/ \E line \in BeepLines : prompt_read(line, NoEnv)
    \/ detect("ok")
    \/ \E i \in DOMAIN beeps : beep_start(i)
    \/ \E i \in DOMAIN beeps : run_beep(i)
    \/ \E i \in DOMAIN beeps : beep_wake(i)
    \/ \E i \in DOMAIN beeps : beep_join(i)
    \/ \E i \in DOMAIN beeps : beep_reap(i)

SpecBeep == InitBeeps /\ [][NextBeeps]_vars

(***************************************************************************)
(* Properties of the REPL (Spec)                                           *)
(***************************************************************************)

\* the first whitespace-delimited word of a line: what stands before its first whitespace
command_word(line) == SubSeq(line, 1, RunLen(line, 1, WS))

\* the help lab.parse prints for a command it does not know
unknown_help(command) ==
    <<command \o <<"?">>, <<"   login">>, <<"   exit">>, <<"   print [text]">>>>

\* C1: a line is dispatched on its first whitespace-delimited word to exactly one of
\* login, logout, exit, print, debug and dev; any other non-blank word prints the
\* unknown-command help and leaves running, authenticated, jwt_token, the config and
\* the subscription registry as they were
C1_DispatchAndFrame ==
    [][(pc = "prompt" /\ last'.handler # "none") =>
         /\ last'.command = command_word(substitute(config, line_in').text)
         /\ (last'.handler = "login") <=> (last'.command = S.login)
         /\ (last'.handler = "logout") <=> (last'.command = S.logout)
         /\ (last'.handler = "exit") <=> (last'.command = S.exit)
         /\ (last'.handler = "print") <=> (last'.command = S.print)
         /\ (last'.handler = "debug") <=> (last'.command = S.debug)
         /\ (last'.handler = "dev") <=> (last'.command = S.dev)
         /\ (last'.handler = "nothing") <=> (last'.command = <<>>)
         /\ last'.handler \in {"login", "logout", "exit", "print", "debug", "dev",
                               "nothing", "unknown"}
         /\ last'.handler = "logout" => out'[1] = <<"Logging out.">>
         /\ last'.handler = "exit" => (~running' \/ raised' # "None")
         /\ last'.handler = "login" =>
                out'[Len(out')] \in {<<"Invalid email or password.">>, <<"Last login: ...">>,
                                     <<"<S> No response received.">>}
                \/ out'[Len(out')][1] = "<S> "
         /\ last'.handler \in {"print", "debug", "dev", "nothing"} =>
                /\ running' = running /\ authenticated' = authenticated
                /\ jwt_token' = jwt_token
         /\ last'.handler = "unknown" =>
                /\ out' = unknown_help(last'.command)
                /\ raised' = "None"
                /\ running' = running /\ authenticated' = authenticated
                /\ jwt_token' = jwt_token
                /\ config' = config /\ subscriptions' = subscriptions
                /\ chans' = chans /\ sdk_channels' = sdk_channels
      ]_vars

\* an unknown command has just been handled in a session that is logged in and holds
\* a registered channel
C1_Witness ==
    /\ pc = "detect"
    /\ last.handler = "unknown"
    /\ last.before.authenticated /\ authenticated
    /\ jwt_token # "None"
    /\ subscriptions # EmptyMap

\* the line 'dev edge fn .' + k
edge_line(k) ==
    <<"d","e","v"," ","e","d","g","e"," ","f","n"," ",".">> \o k

\* C4: a brace-delimited value of the config file, referenced as the payload of dev
\* edge, reaches the literal parser as the text the file holds
C4_PayloadRoundTrip ==
    \A k \in DOMAIN config :
        (/\ pc \in {"detect", "ended"}
         /\ line_in = edge_line(k)
         /\ RawValue(k) # <<>>
         /\ RawValue(k)[1] = "{" /\ RawValue(k)[Len(RawValue(k))] = "}")
        => (edge_call.called /\ edge_call.payload_str = RawValue(k))

\* the handler's input at the line just handled
before_input ==
    [handler_input EXCEPT !.running = last.before.running,
                          !.authenticated = last.before.authenticated,
                          !.jwt_token = last.before.jwt_token,
                          !.edge_call = NoEdgeCall]

\* passwords a config file may hold in place of the one it holds
PasswordTexts == {<<"p","w">>, <<"x","y">>, <<"1">>, <<"x">>}

\* the config had the file held 'password = ' + pw
with_password(pw) ==
    get_config_line(config, <<"p","a","s","s","w","o","r","d"," ","="," ">> \o pw)

\* what the line just handled prints and raises under another config
same_output(r) == r.out = out /\ r.raised = raised

C7_SignInSignOut ==
    pc = "detect" =>
        /\ (last.handler = "login" /\ last.sdk = "response") =>
               (authenticated /\ jwt_token = last.env.token)
        /\ (last.handler \in {"logout", "exit"} /\ last.sdk = "ok") =>
               (~authenticated /\ jwt_token = "None")

\* a second login has just replaced the token of the first
C7_Witness ==
    /\ pc = "detect"
    /\ last.handler = "login" /\ last.sdk = "response"
    /\ last.before.authenticated
    /\ last.before.jwt_token \notin {"None", jwt_token}
    /\ authenticated

\* the email and the password the login branch of lab.parse hands to sign_in: the
\* configured ones, or what the user typed where they are empty
login_email ==
    IF is_empty_str(configured(config, S.email)) THEN StrVal(last.env.typed_email)
    ELSE configured(config, S.email)

login_password ==
    IF is_empty_str(configured(config, S.password)) THEN StrVal(last.env.typed_password)
    ELSE configured(config, S.password)

\* C11: sign_in with an empty email or an empty password makes no SDK call, prints
\* 'Invalid email or password.' and leaves authenticated and jwt_token as they were
C11_EmptyCredentials ==
    (/\ pc \in {"detect", "ended"} /\ last.handler = "login"
     /\ (login_email = StrVal(<<>>) \/ login_password = StrVal(<<>>))) =>
        /\ last.sdk = "none"
        /\ raised = "None"
        /\ out[Len(out)] = <<"Invalid email or password.">>
        /\ authenticated = last.before.authenticated
        /\ jwt_token = last.before.jwt_token

\* a login with an email typed and no password typed has just been refused in a
\* session that is logged in, and the session is still logged in
C11_Witness ==
    /\ pc = "detect" /\ last.handler = "login"
    /\ login_email = StrVal(<<"u">>) /\ login_password = StrVal(<<>>)
    /\ last.sdk = "none"
    /\ last.before.authenticated /\ authenticated
    /\ jwt_token \in Tokens

\* C12: when the SDK's sign_in_with_password raises, sign_in reports the error and
\* returns normally, authenticated is False whatever it was before, and jwt_token
\* is what it was
C12_SignInFailureHandled ==
    (/\ pc \in {"detect", "ended"} /\ last.handler = "login"
     /\ supabase /\ last.sdk = "raise") =>
        /\ raised = "None"
        /\ out[Len(out)][1] = "<S> "
        /\ ~authenticated
        /\ jwt_token = last.before.jwt_token

\* C13: exit_completely signs out exactly when the session is authenticated, and
\* before it sets running to False: a sign-out that raises leaves running True and
\* prints no 'Bye.'.  Once exit_completely has returned, running is False, it stays
\* False, and the loop reads no further input line.
C13_ExitCompletely ==
    [][/\ (pc = "prompt" /\ last'.handler = "exit") =>
            /\ authenticated <=> last'.sdk # "none"
            /\ authenticated <=> out'[1] = <<"Logging out.">>
            /\ raised' = "None" =>
                   /\ ~running' /\ ~authenticated'
                   /\ out'[Len(out')] = <<"Bye.">>
                   /\ \A i \in 1..(Len(out') - 1) : out'[i] # <<"Bye.">>
                   /\ authenticated => jwt_token' = "None"
            /\ raised' # "None" =>
                   /\ running' /\ pc' = "ended"
                   /\ \A i \in 1..Len(out') : out'[i] # <<"Bye.">>
       /\ ~running => ~running'
       /\ (~running /\ pc \in {"prompt", "ended"}) =>
              /\ pc' \in {"prompt", "ended"}
              /\ line_in' = line_in /\ out' = out /\ last' = last
      ]_vars

\* exit has just signed out a session that was logged in, and the loop is about to end
C13_Witness ==
    /\ pc = "detect" /\ last.handler = "exit"
    /\ last.before.authenticated /\ last.before.jwt_token \in Tokens
    /\ out = <<<<"Logging out.">>, <<"Bye.">>>>
    /\ ~running /\ ~authenticated /\ jwt_token = "None"

\* C14: every input line that has been processed is followed by the get_user call;
\* when the call raises, as it does when no client is connected, authenticated is
\* False before the next prompt is shown; and the prompt shown at a read is the
\* session prompt exactly when authenticated is True at that moment
C14_TerminatedSessionDetected ==
    [][/\ (pc = "prompt" /\ last'.handler # "none" /\ raised' = "None") => pc' = "detect"
       /\ pc = "detect" =>
              /\ pc' = "prompt"
              /\ last'.get_user \in {"ok", "raise"}
              /\ ~supabase => last'.get_user = "raise"
              /\ last'.get_user = "raise" => ~authenticated'
              /\ last'.get_user = "ok" => authenticated' = authenticated
       /\ (pc = "prompt" /\ last'.prompt # "none") =>
              /\ last'.prompt \in {"session", "auth"}
              /\ last'.prompt = "session" <=> authenticated
              /\ last.get_user = "raise" => last'.prompt = "auth"
      ]_vars

\* get_user has just raised in a connected session that holds the token of a login,
\* and the next prompt will be the authentication prompt
C14_Witness ==
    /\ pc = "prompt" /\ running
    /\ last.get_user = "raise"
    /\ supabase /\ jwt_token \in Tokens
    /\ ~authenticated

(***************************************************************************)
(* Properties of the beep command (SpecBeep)                               *)
(***************************************************************************)

\* the substitution as documented: the value of a key, rendered as text, for a word
\* that is a key, and the reference itself for any other word
RECURSIVE references_replaced(_, _, _)
references_replaced(cfg, line, i) ==
    IF i > Len(line) THEN <<>>
    ELSE LET n == Span(line, i + 1, WordChars)
         IN  IF line[i] = "." /\ n > 0
             THEN (IF SubSeq(line, i + 1, i + n) \in DOMAIN cfg
                   THEN text_of(cfg[SubSeq(line, i + 1, i + n)])
                   ELSE SubSeq(line, i, i + n))
                  \o references_replaced(cfg, line, i + n + 1)
             ELSE <<line[i]>> \o references_replaced(cfg, line, i + 1)

\* C5: the references of an input line are substituted before it is parsed, a key by
\* its value and any other word by itself, and the substitution does not raise
C5_ReferencesSubstituted ==
    (pc \in {"detect", "ended"} /\ last.prompt # "none") =>
        /\ ~(raised = "TypeError" /\ last.handler = "none")
        /\ last.handler = "print" =>
               out = <<split_command(references_replaced(config, line_in, 1)).args>>

\* C8: a beep whose duration has elapsed and whose coroutine has ended has its
\* run_beep task ended by the cancellation and its id removed from the registry
C8_BeepRemoved ==
    \A i \in DOMAIN beeps :
        (beeps[i].elapsed /\ beeps[i].pc \in {"done", "failed"}) =>
            /\ beeps[i].run \in {"finished", "cancelled"}
            /\ beeps[i].id \notin DOMAIN beeping

(***************************************************************************)
(* Properties of the channel commands (SpecChan)                           *)
(***************************************************************************)

\* C9: a call of subscribe_channel for a registered name returns the registered
\* subscription, creating none and leaving the registry as it is; a call for a name
\* that is not registered, in a connected session, creates one subscription and
\* registers it under the name
C9_SubscribeIdempotent ==
    [][\A i \in DOMAIN chans :
         (chans[i].kind = "sub" /\ chans'[i] # chans[i] /\ chans[i].pc \notin {"done", "failed"}
          /\ chans'[i].pc # "failed") =>
            /\ (chans[i].pc = "new" /\ supabase
                /\ channel_name(chans[i]) \in DOMAIN subscriptions) =>
                   /\ chans'[i].pc = "done"
                   /\ chans'[i].result = subscriptions[channel_name(chans[i])]
                   /\ subscriptions' = subscriptions
                   /\ sdk_channels' = sdk_channels
            /\ (chans[i].pc = "new" /\ supabase
                /\ channel_name(chans[i]) \notin DOMAIN subscriptions) =>
                   /\ chans'[i].pc = "connecting"
                   /\ sdk_channels' = sdk_channels
            /\ chans[i].pc = "connecting" =>
                   /\ chans'[i].pc = "subscribing"
                   /\ Len(sdk_channels') = Len(sdk_channels) + 1
                   /\ chans'[i].sub = Len(sdk_channels')
                   /\ subscriptions' = subscriptions
            /\ chans[i].pc = "subscribing" =>
                   /\ chans'[i].pc = "done"
                   /\ sdk_channels' = sdk_channels
                   /\ chans'[i].result = chans[i].sub
                   /\ DOMAIN subscriptions' = DOMAIN subscriptions \cup {channel_name(chans[i])}
                   /\ subscriptions'[channel_name(chans[i])] = chans[i].sub
                   /\ \A n \in DOMAIN subscriptions \ {channel_name(chans[i])} :
                          subscriptions'[n] = subscriptions[n]
      ]_vars

\* a call of subscribe_channel has just returned the subscription an earlier call
\* registered
C9_Witness ==
    \E i \in DOMAIN chans :
        /\ chans[i].kind = "sub" /\ chans[i].pc = "done"
        /\ chans[i].sub = 0 /\ chans[i].result # 0
        /\ channel_name(chans[i]) \in DOMAIN subscriptions
        /\ subscriptions[channel_name(chans[i])] = chans[i].result
        /\ Len(sdk_channels) = 1

\* C10: unsubscribe_channel on a registered name calls the SDK's unsubscribe and then
\* removes the name from the registry, so that list_channels lists it no more; on a
\* name that is not registered, or in a session that is not connected, it does nothing
C10_UnsubscribeRemoves ==
    [][\A i \in DOMAIN chans :
         /\ (chans[i].kind = "unsub" /\ chans[i].pc = "new" /\ chans'[i] # chans[i]) =>
               IF supabase /\ channel_name(chans[i]) \in DOMAIN subscriptions
               THEN /\ chans'[i].pc = "unsubscribing"
                    /\ chans'[i].sub = subscriptions[channel_name(chans[i])]
                    /\ subscriptions' = subscriptions
               ELSE /\ chans'[i].pc = "done"
                    /\ subscriptions' = subscriptions
                    /\ sdk_channels' = sdk_channels
         /\ (chans[i].kind = "unsub" /\ chans[i].pc = "unsubscribing"
             /\ chans'[i].pc \in {"done", "failed"} /\ sdk_channels' # sdk_channels) =>
               /\ sdk_channels'[chans[i].sub] = "closed"
               /\ channel_name(chans[i]) \notin DOMAIN subscriptions'
               /\ \A n \in DOMAIN subscriptions \ {channel_name(chans[i])} :
                      n \in DOMAIN subscriptions' /\ subscriptions'[n] = subscriptions[n]
         /\ (chans[i].kind = "lschan" /\ chans[i].pc = "new" /\ chans'[i] # chans[i]) =>
               chans'[i].listed = DOMAIN subscriptions
      ]_vars

\* a channel has been subscribed and unsubscribed, and list_channels has just listed
\* the registry without it
C10_Witness ==
    /\ \E n \in 1..Len(sdk_channels) : sdk_channels[n] = "closed"
    /\ subscriptions = EmptyMap
    /\ \E i \in DOMAIN chans :
           chans[i].kind = "lschan" /\ chans[i].pc = "done" /\ chans[i].listed = {}

(***************************************************************************)
(* Properties of the send command (SpecSend)                               *)
(***************************************************************************)

\* C15: send_to_broadcast_channel never subscribes: no step of it creates a channel
\* or changes the registry.  Asked for a name that is not registered it calls no
\* send_broadcast and ends; asked for a registered name it calls send_broadcast with
\* the event and the payload on the subscription the registry holds for the name.
C15_SendNeverSubscribes ==
    [][\A i \in DOMAIN chans :
         (chans[i].kind = "schan" /\ chans'[i] # chans[i]
          /\ chans[i].pc \notin {"done", "failed"}) =>
            /\ subscriptions' = subscriptions
            /\ sdk_channels' = sdk_channels
            /\ chans'[i].pc \in {"realtime_connecting", "sending", "done", "failed"}
            /\ chans[i].pc = "new" => chans'[i].sent = <<>>
            /\ (chans[i].pc = "realtime_connecting" /\ chans'[i].pc # "failed") =>
                   IF channel_name(chans[i]) \in DOMAIN subscriptions
                   THEN /\ chans'[i].pc = "sending"
                        /\ chans'[i].sent =
                               <<[sub |-> subscriptions[channel_name(chans[i])],
                                  event |-> schan_event(chans[i]),
                                  payload |-> schan_message(chans[i])]>>
                   ELSE /\ chans'[i].pc = "done"
                        /\ chans'[i].sent = <<>>
            /\ chans[i].pc = "sending" => chans'[i].sent = chans[i].sent
      ]_vars

\* in a connected session that holds channel c, a send to channel d has just ended
\* with nothing sent and d not registered
C15_Witness ==
    /\ supabase
    /\ <<"c">> \in DOMAIN subscriptions /\ <<"d">> \notin DOMAIN subscriptions
    /\ Len(sdk_channels) = 1
    /\ \E i \in DOMAIN chans :
           /\ chans[i].kind = "schan" /\ chans[i].pc = "done"
           /\ channel_name(chans[i]) = <<"d">>
           /\ chans[i].sent = <<>> /\ chans[i].sub = 0

====
